---- MODULE Spec2Model ----
(***************************************************************************)
(* A model of pyWMP (src/pyWMP.py): the song-list filters, the majority    *)
(* common path, the M3U export and the removal of exported songs.          *)
(*                                                                         *)
(* Text is modelled at character level: a Python string is a sequence of   *)
(* one-character strings, so that split, join, startswith, replace and     *)
(* slicing are computed the way the code computes them.                    *)
(***************************************************************************)
EXTENDS Integers, Sequences, FiniteSets, TLC

VARIABLES
    py,           \* the interpreter's major version: 2 or 3
    cp_input,     \* common_path: the list handed in as filelist
    cp_order,     \* common_path: the order in which set(filelist) is traversed
    cp_out,       \* common_path: NoCall, or the outcome of the call
    fl_songs,     \* filter_by_attribute: the song list (self)
    fl_attribute, \* filter_by_attribute: the attribute argument
    fl_test,      \* filter_by_attribute: the test argument
    fl_res,       \* filter_by_attribute: keep -> NoCall, or the outcome
    fu_songs,     \* filter_unique: the song list (self)
    fu_name,      \* filter_unique: the name of that list
    fu_target,    \* filter_unique: target_path, None or a directory tree
    fu_res,       \* filter_unique: reverse -> NoCall, or the outcome
    ep_m3u,       \* export_playlist: the file playlist_path + '.m3u'
    ep_log,       \* export_playlist: the file playlist_path + '_errors.log'
    ep_call,      \* export_playlist: NoCall, or the last call and its result
    ep_logBefore, \* export_playlist: whether the last call found an error log
    ex_songs,     \* export_songs / remove_songs: the song list (self)
    ex_tree,      \* the destination directory: whether it exists, its song
                  \* files, its directories, its playlist files
    ex_last,      \* NoCall, or the last export_songs / remove_songs call
    ex_calls,     \* export_songs, remove_songs: the number of calls made
    ga_songs,     \* get_attributes: the song list (self)
    ga_min,       \* get_attributes: min_songs
    ga_res,       \* NoCall, or the outcome of get_attributes
    co_library,   \* the playlists of the media library, in its order
    co_name,      \* pyWMPplaylist: the name it was built for, or None
    co_dict,      \* pyWMPplaylist: the song list under each key
    co_files,     \* the playlist path of each export_playlist call, with its files
    co_last,      \* NoCall, or the last operation on the collection
    pe_song,      \* __playlistEntry_M3U__: the song (iwmp_media)
    pe_url,       \* __playlistEntry_M3U__: the url argument
    pe_out        \* NoCall, or the outcome of __playlistEntry_M3U__

pathVars == <<cp_input, cp_order, cp_out>>
filterVars == <<fl_songs, fl_attribute, fl_test, fl_res>>
uniqueVars == <<fu_songs, fu_name, fu_target, fu_res>>
playlistVars == <<ep_m3u, ep_log, ep_call, ep_logBefore>>
exportVars == <<ex_songs, ex_tree, ex_last, ex_calls>>
attrVars == <<ga_songs, ga_min, ga_res>>
collectionVars == <<co_library, co_name, co_dict, co_files, co_last>>
entryVars == <<pe_song, pe_url, pe_out>>
vars == <<py, pathVars, filterVars, uniqueVars, playlistVars, exportVars, attrVars,
          collectionVars, entryVars>>

----------------------------------------------------------------------------
(* Python strings and lists                                                *)

\* os.path.sep
Sep == "/"

Min(a, b) == IF a < b THEN a ELSE b

Range(s) == {s[i] : i \in 1..Len(s)}

\* s[n:] of Python (n >= 0): the text after the first n characters.
DropFirst(s, n) == IF n >= Len(s) THEN <<>> ELSE SubSeq(s, n + 1, Len(s))

\* s[:-1] of Python: all but the last element (the empty list stays empty).
AllButLast(s) == IF Len(s) = 0 THEN <<>> ELSE SubSeq(s, 1, Len(s) - 1)

\* str.startswith
StartsWith(s, p) == Len(p) <= Len(s) /\ SubSeq(s, 1, Len(p)) = p

\* str.split(sep) for a one-character separator: always at least one part.
RECURSIVE Split(_, _)
Split(s, sep) ==
    IF \A i \in 1..Len(s) : s[i] # sep
    THEN <<s>>
    ELSE LET i == CHOOSE k \in 1..Len(s) :
                      s[k] = sep /\ \A j \in 1..(k - 1) : s[j] # sep
         IN  <<SubSeq(s, 1, i - 1)>> \o Split(SubSeq(s, i + 1, Len(s)), sep)

\* sep.join(parts) for a one-character separator.
RECURSIVE Join(_, _)
Join(parts, sep) ==
    IF Len(parts) = 0 THEN <<>>
    ELSE IF Len(parts) = 1 THEN parts[1]
    ELSE parts[1] \o <<sep>> \o Join(Tail(parts), sep)

\* str.replace(old, new): every non-overlapping occurrence, left to right
\* (old is never empty where the code calls it on a path).
RECURSIVE Replace(_, _, _)
Replace(s, old, new) ==
    IF Len(old) = 0 \/ Len(s) < Len(old) THEN s
    ELSE IF StartsWith(s, old)
         THEN new \o Replace(DropFirst(s, Len(old)), old, new)
         ELSE <<s[1]>> \o Replace(Tail(s), old, new)

\* The orders in which a set can be traversed.
Orders(S) ==
    {o \in [1..Cardinality(S) -> S] : \A i, j \in DOMAIN o : i # j => o[i] # o[j]}

----------------------------------------------------------------------------
(* The file paths of the model (sourceURL values, after line 85)           *)

P_cmat == <<"c", ":", "/", "m", "/", "a", "/", "t">>
P_cmau == <<"c", ":", "/", "m", "/", "a", "/", "u">>
P_cmbt == <<"c", ":", "/", "m", "/", "b", "/", "t">>
P_cmmt == <<"c", ":", "/", "m", "m", "/", "t">>
P_ct   == <<"c", ":", "/", "t">>
P_dxt  == <<"d", ":", "/", "x", "/", "t">>
P_dxu  == <<"d", ":", "/", "x", "/", "u">>

NoCall == [status |-> "none"]

IdlePath == cp_input = <<>> /\ cp_order = <<>> /\ cp_out = NoCall

IdleFilter ==
    /\ fl_songs = <<>>
    /\ fl_attribute = "UserRating"
    /\ fl_test = [kind |-> "none"]
    /\ fl_res = [keep \in BOOLEAN |-> NoCall]

\* target_path=None
NoTarget == [given |-> FALSE, files |-> {}]

IdleUnique ==
    /\ fu_songs = <<>>
    /\ fu_name = <<>>
    /\ fu_target = NoTarget
    /\ fu_res = [reverse \in BOOLEAN |-> NoCall]

\* A file that does not exist, and a file holding the chunks written to it.
NoFile == [exists |-> FALSE, content |-> <<>>]

File(content) == [exists |-> TRUE, content |-> content]

IdlePlaylist ==
    /\ ep_m3u = NoFile
    /\ ep_log = NoFile
    /\ ep_call = NoCall
    /\ ep_logBefore = FALSE

\* A destination directory that does not exist.
NoTree ==
    [exists |-> FALSE, files |-> <<>>, dirs |-> {},
     m3u |-> [which \in {"default", "explicit"} |-> NoFile]]

IdleExport ==
    /\ ex_songs = <<>>
    /\ ex_tree = NoTree
    /\ ex_last = NoCall
    /\ ex_calls = 0

\* A song without attributes.
F_bare == [url |-> P_dxu, attrs |-> <<>>]

IdleEntry == pe_song = F_bare /\ pe_url = <<>> /\ pe_out = NoCall

IdleAttributes == ga_songs = <<>> /\ ga_min = 0 /\ ga_res = NoCall

\* name=None
None == "None"

IdleCollection ==
    /\ co_library = <<>>
    /\ co_name = None
    /\ co_dict = <<>>
    /\ co_files = <<>>
    /\ co_last = NoCall

----------------------------------------------------------------------------
(* pyWMPsonglist.common_path                                               *)

\* One iteration of "for f in filelist" (lines 527-547).  st carries
\* prefixlist and checkedlist; raised records the IndexError of
\* parts[len(prefixlist)] at line 544.
CommonPathStep(st, f, fileset) ==
    LET parts == AllButLast(Split(f, Sep))
        n     == Len(st.prefixlist)
        check == Join(SubSeq(parts, 1, Min(1 + n, Len(parts))), Sep)
        st2   == [st EXCEPT !.checkedlist = @ \cup {check}]
    IN  IF st.raised \/ Len(parts) < n \/ check \in st.checkedlist THEN st
        ELSE IF Cardinality({f2 \in fileset : StartsWith(f2, check)}) * 2
                    > Cardinality(fileset)
             THEN IF n + 1 > Len(parts)
                  THEN [st2 EXCEPT !.raised = TRUE]
                  ELSE [st2 EXCEPT !.prefixlist = Append(@, parts[n + 1])]
             ELSE st2

RECURSIVE CommonPathLoop(_, _, _)
CommonPathLoop(st, order, fileset) ==
    IF Len(order) = 0 THEN st
    ELSE CommonPathLoop(CommonPathStep(st, Head(order), fileset),
                        Tail(order), fileset)

\* common_path over set(filelist) traversed in `order`: the joined prefix, or
\* the IndexError the loop raised.
common_path(order) ==
    LET st == CommonPathLoop([prefixlist |-> <<>>, checkedlist |-> {},
                              raised |-> FALSE], order, Range(order))
    IN  IF st.raised
        THEN [status |-> "raised", exc |-> "IndexError"]
        ELSE [status |-> "returned", value |-> Join(st.prefixlist, Sep)]

----------------------------------------------------------------------------
(* Songs: the IWMPMedia handles of the external library                    *)

\* A song is [url |-> sourceURL, attrs |-> attribute name -> value]; the
\* domain of attrs is what getAttributeName enumerates.
attributeCount(song) == Cardinality(DOMAIN song.attrs)

\* IWMPMedia.getItemInfo: the value, or the empty string when absent.
getItemInfo(song, k) == IF k \in DOMAIN song.attrs THEN song.attrs[k] ELSE <<>>

Digits == <<"0", "1", "2", "3", "4", "5", "6", "7", "8", "9">>

\* str.isdigit
isdigit(a) == Len(a) > 0 /\ \A i \in 1..Len(a) : a[i] \in Range(Digits)

DigitValue(c) == (CHOOSE i \in 1..Len(Digits) : Digits[i] = c) - 1

\* The number a decimal literal without leading zeros denotes.
RECURSIVE IntLiteral(_)
IntLiteral(a) ==
    IF Len(a) = 0 THEN 0
    ELSE 10 * IntLiteral(AllButLast(a)) + DigitValue(a[Len(a)])

----------------------------------------------------------------------------
(* pyWMPsonglist.get_attributes                                            *)

\* attr after the loop of lines 258-268: for every attribute name a song of
\* the list carries, the number of songs carrying each of its values.
Histogram(songs) ==
    LET indices == 1..Len(songs)
        names   == UNION {DOMAIN songs[i].attrs : i \in indices}
        with(k) == {i \in indices : k \in DOMAIN songs[i].attrs}
    IN  [k \in names |->
            [v \in {songs[i].attrs[k] : i \in with(k)} |->
                Cardinality({i \in with(k) : songs[i].attrs[k] = v})]]

\* Lines 278-280 on the values of one attribute.
TrimValues(values, min_songs) ==
    [v \in {w \in DOMAIN values : values[w] >= min_songs} |-> values[v]]

\* Whether the pass of lines 271-284 over attribute k deletes anything.
Deletes(attr, k, min_songs) ==
    \/ Cardinality(DOMAIN attr[k]) = 1
    \/ \E v \in DOMAIN attr[k] : attr[k][v] < min_songs

\* "for k in attr.keys()" and "for v in attr[k].keys()", lines 271 and 278:
\* keys() is a copy of the keys under Python 2 and a view of the dictionary
\* under Python 3, where the step after a del raises RuntimeError.
KeysAreView(version) == version = 3

\* get_attributes(min_songs), lines 254-287.
get_attributes(songs, min_songs, version) ==
    LET attr    == Histogram(songs)
        kept(k) == /\ Cardinality(DOMAIN attr[k]) # 1
                   /\ Cardinality(DOMAIN TrimValues(attr[k], min_songs)) >= 2
    IN  IF KeysAreView(version) /\ \E k \in DOMAIN attr : Deletes(attr, k, min_songs)
        THEN [status |-> "raised", exc |-> "RuntimeError"]
        ELSE [status |-> "returned",
              attr   |-> [k \in {n \in DOMAIN attr : kept(n)} |->
                             TrimValues(attr[k], min_songs)]]

----------------------------------------------------------------------------
(* pyWMPsonglist._isRecent                                                 *)

\* The days before the first of each month of a common year.
DaysBefore == <<0, 31, 59, 90, 120, 151, 181, 212, 243, 273, 304, 334>>

\* dt.strptime(attribute, "%m/%d/%Y") as a day number; the dates of the model
\* lie in common years.
DayNumber(date) ==
    LET f == Split(date, "/")
    IN  365 * IntLiteral(f[3]) + DaysBefore[IntLiteral(f[1])] + IntLiteral(f[2])

\* dt.now() of the model: a moment in the course of 11/05/2026.
Today == <<"1", "1", "/", "0", "5", "/", "2", "0", "2", "6">>

\* _isRecent(attribute, days), lines 383-386: age.days is the number of whole
\* days from the midnight the timestamp names to now.
isRecent(attribute, days) == DayNumber(Today) - DayNumber(attribute) < days

----------------------------------------------------------------------------
(* pyWMPsonglist.filter_by_attribute                                       *)

\* The textual tests of the model, each standing for one expression string:
\*   gt      'attribute > <n>'
\*   eq      'attribute == "<text>"'
\*   gt_or   'attribute > <n> or <name>', <name> not defined in eval_globals
Threshold == 75

T_gt    == [kind |-> "gt", n |-> Threshold]
T_eq    == [kind |-> "eq", text |-> <<"m", "p", "3">>]
T_gt_or == [kind |-> "gt_or", n |-> Threshold]

Value(v) == [kind |-> "value", v |-> v]
Raises(e) == [kind |-> "exception", exc |-> e]

\* 'attribute > n' with the value substituted: a number when the value is all
\* digits (lines 352-353), a quoted string otherwise.  Comparing a string with
\* a number is True under Python 2 and a TypeError under Python 3.
EvalGreater(a, n, version) ==
    IF isdigit(a) THEN Value(IntLiteral(a) > n)
    ELSE IF version = 2 THEN Value(TRUE) ELSE Raises("TypeError")

\* eval(test.replace('attribute', a), eval_globals), line 354.
Eval(test, a, version) ==
    CASE test.kind = "gt" -> EvalGreater(a, test.n, version)
      [] test.kind = "eq" -> Value(~isdigit(a) /\ a = test.text)
      [] test.kind = "gt_or" ->
            LET left == EvalGreater(a, test.n, version)
            IN  IF left = Value(FALSE) THEN Raises("NameError") ELSE left

\* A predicate function: the lambda of filter_recent, line 392.
T_recent(days) == [kind |-> "function", days |-> days]

\* "type(test) == function", line 355: no import and no assignment of the
\* module binds the name function, so that evaluating it is a NameError.
FunctionIsBound == FALSE

\* The try block, lines 350-359: the value of the test on a, or the exception.
Try(test, a, version) ==
    IF test.kind # "function" THEN Eval(test, a, version)
    ELSE IF FunctionIsBound THEN Value(isRecent(a, test.days))
    ELSE Raises("NameError")

\* The NameError handler, lines 361-366: test.replace at line 363 is an
\* AttributeError when test is not a string; otherwise the loop is left.
Handler(test, acc) ==
    IF test.kind = "function" THEN [status |-> "raised", exc |-> "AttributeError"]
    ELSE [status |-> "returned", list |-> acc, stop |-> "NameError"]

\* The loop of lines 337-373 from song i on, new_pl being acc.  A song without
\* any attribute and a NameError both leave the loop (break); any other
\* exception leaves the call.
RECURSIVE FilterLoop(_, _, _, _, _, _, _)
FilterLoop(songs, i, acc, attribute, test, keep, version) ==
    IF i > Len(songs) THEN [status |-> "returned", list |-> acc, stop |-> "end"]
    ELSE LET song == songs[i]
             r    == Try(test, getItemInfo(song, attribute), version)
         IN  IF attributeCount(song) = 0
             THEN [status |-> "returned", list |-> acc, stop |-> "no attributes"]
             ELSE IF attribute \notin DOMAIN song.attrs
             THEN FilterLoop(songs, i + 1, acc, attribute, test, keep, version)
             ELSE IF r.kind = "exception"
             THEN IF r.exc = "NameError"
                  THEN Handler(test, acc)
                  ELSE [status |-> "raised", exc |-> r.exc]
             ELSE FilterLoop(songs, i + 1,
                             IF r.v = keep THEN Append(acc, song) ELSE acc,
                             attribute, test, keep, version)

filter_by_attribute(songs, attribute, test, keep, version) ==
    FilterLoop(songs, 1, <<>>, attribute, test, keep, version)

\* filter_recent(days, keep), lines 389-393.
AcquisitionTime == "AcquisitionTimeYearMonthDay"

filter_recent(songs, days, keep, version) ==
    filter_by_attribute(songs, AcquisitionTime, T_recent(days), keep, version)

----------------------------------------------------------------------------
(* pyWMPsonglist.filter_unique                                             *)

\* The last segment of a path: s.sourceURL.split(os.path.sep)[-1].
Basename(path) == LET parts == Split(path, Sep) IN parts[Len(parts)]

\* The keys of file_list after the os.walk of lines 405-411: the name of every
\* file anywhere under the target.
WalkNames(files) == {Basename(p) : p \in files}

\* "elif file_list:" taken for every target.
TruthyMut(target, names) == TRUE

\* "elif file_list:" (line 416): None and the empty dict are both false.
Truthy(target, names) == target.given /\ names # {}

\* The loop of lines 413-429 from song i on; pathset and new_pl are carried.
RECURSIVE UniqueLoop(_, _, _, _, _, _, _)
UniqueLoop(songs, i, pathset, new_pl, target, names, reverse) ==
    IF i > Len(songs) THEN new_pl
    ELSE LET s     == songs[i]
             check == Basename(s.url)
             skip  ==
                 \/ s.url \in pathset
                 \/ /\ Truthy(target, names)
                    /\ IF check \in names THEN ~reverse ELSE reverse
         IN  IF skip
             THEN UniqueLoop(songs, i + 1, pathset, new_pl, target, names, reverse)
             ELSE UniqueLoop(songs, i + 1, pathset \cup {s.url}, Append(new_pl, s),
                             target, names, reverse)

\* The name of the list filter_unique returns, line 431.
UniqueLabel(name) == name \o <<" ", "u", "n", "i", "q", "u", "e">>

\* filter_unique(target_path, reverse): target is NoTarget or the directory
\* tree [given |-> TRUE, files |-> the file paths under it].
filter_unique(songs, target, reverse) ==
    UniqueLoop(songs, 1, {}, <<>>, target,
               IF target.given THEN WalkNames(target.files) ELSE {}, reverse)

----------------------------------------------------------------------------
(* pyWMPsonglist.__playlistEntry_M3U__                                     *)

LowerCase == <<"a", "b", "c", "d", "e", "f", "g", "h", "i", "j", "k", "l", "m",
               "n", "o", "p", "q", "r", "s", "t", "u", "v", "w", "x", "y", "z">>
UpperCase == <<"A", "B", "C", "D", "E", "F", "G", "H", "I", "J", "K", "L", "M",
               "N", "O", "P", "Q", "R", "S", "T", "U", "V", "W", "X", "Y", "Z">>

IsCased(c) == c \in Range(LowerCase) \cup Range(UpperCase)

Upper(c) ==
    IF c \in Range(LowerCase)
    THEN UpperCase[CHOOSE i \in 1..Len(LowerCase) : LowerCase[i] = c]
    ELSE c

Lower(c) ==
    IF c \in Range(UpperCase)
    THEN LowerCase[CHOOSE i \in 1..Len(UpperCase) : UpperCase[i] = c]
    ELSE c

\* str.title: a letter that follows a letter is lowered, any other letter is
\* raised.
title(s) ==
    [i \in 1..Len(s) |->
        IF i > 1 /\ IsCased(s[i - 1]) THEN Lower(s[i]) ELSE Upper(s[i])]

\* str(int(float(d))) for a plain non-negative decimal d: the digits before
\* the point without leading zeros.
RECURSIVE StripZeros(_)
StripZeros(d) ==
    IF Len(d) > 1 /\ d[1] = "0" THEN StripZeros(Tail(d)) ELSE d

WholeSeconds(d) ==
    LET whole == Split(d, ".")[1]
    IN  IF Len(whole) = 0 THEN <<"0">> ELSE StripZeros(whole)

EXTINF == <<"#", "E", "X", "T", "I", "N", "F", ":">>

DefaultDuration == <<"1", "2", "0">>

Underscores(s) == Replace(s, <<"_">>, <<" ">>)

\* The segment k places from the end of a path (1 is the file name).
SegmentFromEnd(path, k) ==
    LET parts == Split(path, Sep) IN parts[Len(parts) + 1 - k]

\* __playlistEntry_M3U__(iwmp_media, url), lines 436-467.
playlistEntry_M3U(song, url) ==
    LET duration == IF Len(getItemInfo(song, "Duration")) > 0
                    THEN WholeSeconds(getItemInfo(song, "Duration"))
                    ELSE DefaultDuration
        artist   == IF Len(getItemInfo(song, "Author")) > 0
                    THEN getItemInfo(song, "Author")
                    ELSE title(Underscores(SegmentFromEnd(song.url, 2)))
        name     == IF Len(getItemInfo(song, "Title")) > 0
                    THEN getItemInfo(song, "Title")
                    ELSE title(Underscores(Split(SegmentFromEnd(song.url, 1), ".")[1]))
    IN  EXTINF \o duration \o <<",">> \o artist \o <<" ", "-", " ">> \o name
            \o <<"\n">> \o (IF Len(url) > 0 THEN url ELSE song.url) \o <<"\n">>

----------------------------------------------------------------------------
(* pyWMPsonglist.export_playlist                                           *)

\* header = '#EXTM3U\n'
Header == <<"#", "E", "X", "T", "M", "3", "U", "\n">>

\* "Map source to destination directories", lines 500-501.
Rebase(string, source_dir, dest_dir) ==
    IF Len(source_dir) > 0 /\ Len(dest_dir) > 0
    THEN Replace(string, source_dir, dest_dir)
    ELSE string

\* f.write(string.encode('utf8')) on a file opened in text mode (lines 490,
\* 504): Python 2 writes the bytes; Python 3 raises TypeError for every entry.
EncodedWriteFails(string, version) == version = 3

\* os.remove(f_err) when the log exists: "fresh log for each run", 481-482.
FreshLogMut(log) == log

FreshLog(log) == NoFile

\* The loop of lines 496-509 from song i on: the chunks written to the
\* playlist, the records appended to the log, and cnt.
RECURSIVE ExportPlaylistLoop(_, _, _, _, _, _)
ExportPlaylistLoop(songs, i, st, source_dir, dest_dir, version) ==
    IF i > Len(songs) THEN st
    ELSE LET string == Rebase(playlistEntry_M3U(songs[i], <<>>), source_dir, dest_dir)
         IN  IF EncodedWriteFails(string, version)
             THEN ExportPlaylistLoop(songs, i + 1,
                      [st EXCEPT !.log = File(Append(@.content,
                                              [entry |-> string, exc |-> "TypeError"])),
                                 !.cnt = @ + 1],
                      source_dir, dest_dir, version)
             ELSE ExportPlaylistLoop(songs, i + 1,
                      [st EXCEPT !.m3u = File(Append(@.content, string))],
                      source_dir, dest_dir, version)

\* export_playlist(playlist_path, source_dir, dest_dir), lines 469-516: the
\* playlist file, the error log and the returned count.
export_playlist(songs, source_dir, dest_dir, log, version) ==
    ExportPlaylistLoop(songs, 1,
                       [m3u |-> File(<<Header>>), log |-> FreshLog(log), cnt |-> 0],
                       source_dir, dest_dir, version)

----------------------------------------------------------------------------
(* The destination directory of export_songs and remove_songs              *)

\* The playlist file of a call: playlist_path + '.m3u', where playlist_path
\* is dest_dir/<self.name> by default ("default") or the caller's path inside
\* the destination directory ("explicit").
M3uName(which) ==
    IF which = "default" THEN <<"l", ".", "m", "3", "u">>
    ELSE <<"p", ".", "m", "3", "u">>

\* Every file os.walk finds under the directory, as a path below it.
TreeFiles(tree) ==
    DOMAIN tree.files
        \cup {M3uName(which) : which \in {w \in DOMAIN tree.m3u : tree.m3u[w].exists}}

\* os.access(os.path.sep.join([dest_dir, rel]), os.F_OK)
PathExists(tree, rel) ==
    tree.exists /\ (rel = <<>> \/ rel \in DOMAIN tree.files \/ rel \in tree.dirs)

IsFile(tree, rel) == rel \in DOMAIN tree.files

\* The directories down to dir: what os.makedirs walks through.
DirChain(dir) ==
    IF dir = <<>> THEN {}
    ELSE LET parts == Split(dir, Sep)
         IN  {Join(SubSeq(parts, 1, k), Sep) : k \in 1..Len(parts)}

\* The file written at path with the given content.
WithFile(files, path, content) ==
    [p \in DOMAIN files \cup {path} |-> IF p = path THEN content ELSE files[p]]

WithoutFile(files, path) == [p \in DOMAIN files \ {path} |-> files[p]]

\* The destination-relative path of a song, lines 592-596 and 657-661.
DestRelPath(url, source_dir) ==
    IF StartsWith(url, source_dir)
    THEN DropFirst(url, Len(source_dir) + 1)
    ELSE Replace(url, <<":">>, <<>>)

\* "strip file name from path", lines 604 and 664, below dest_dir.
DirOf(rel) == Join(AllButLast(Split(rel, Sep)), Sep)

----------------------------------------------------------------------------
(* pyWMPsonglist.export_songs                                              *)

\* One iteration of the copy loop, lines 587-611.  os.makedirs raises when a
\* component of the directory is a file; shutil.copy2 copies into a directory
\* and writes over anything else.
CopyStep(st, song, source_dir, sourceFiles) ==
    LET rel    == DestRelPath(song.url, source_dir)
        dir    == DirOf(rel)
        tree   == st.tree
        target == IF dir = <<>> THEN Basename(song.url)
                  ELSE dir \o <<Sep>> \o Basename(song.url)
    IN  IF st.status = "raised" \/ song.url \notin sourceFiles \/ PathExists(tree, rel)
        THEN st
        ELSE IF ~PathExists(tree, dir) /\ \E d \in DirChain(dir) : IsFile(tree, d)
        THEN [st EXCEPT !.status = "raised"]
        ELSE IF IsFile(tree, dir)
        THEN [st EXCEPT !.tree.files = WithFile(@, dir, song.url),
                        !.copied = @ \cup {dir}]
        ELSE [st EXCEPT !.tree.files = WithFile(@, target, song.url),
                        !.tree.dirs = @ \cup DirChain(dir),
                        !.copied = @ \cup {target}]

RECURSIVE CopyLoop(_, _, _, _, _)
CopyLoop(pl, i, st, source_dir, sourceFiles) ==
    IF i > Len(pl) THEN st
    ELSE CopyLoop(pl, i + 1, CopyStep(st, pl[i], source_dir, sourceFiles),
                  source_dir, sourceFiles)

\* A character outside the codec of the playlist file.
NonEncodable == "\\xe9"

\* f.write(string) at line 624: the entry cannot be written when it holds a
\* character outside the codec of the file (the exception is caught, 625-627).
WriteFails(string) == NonEncodable \in Range(string)

\* The playlist loop, lines 614-627, from song i on: songs is the list of the
\* sourceURLs already written ("s in songs" compares sourceURLs, 180-186).
RECURSIVE PlaylistLoop(_, _, _, _, _)
PlaylistLoop(self, i, songs, chunks, source_dir) ==
    IF i > Len(self) THEN chunks
    ELSE IF self[i].url \in songs
    THEN PlaylistLoop(self, i + 1, songs, chunks, source_dir)
    ELSE LET string == Replace(playlistEntry_M3U(self[i], <<>>),
                               source_dir \o <<Sep>>, <<>>)
         IN  PlaylistLoop(self, i + 1, songs \cup {self[i].url},
                          IF WriteFails(string) THEN chunks ELSE Append(chunks, string),
                          source_dir)

\* export_songs(playlist_path, dest_dir, source_dir) with source_dir resolved,
\* lines 566-629: the tree afterwards, the paths a copy wrote, and whether the
\* call returned or raised.
export_songs(tree, self, which, source_dir, sourceFiles) ==
    LET made   == [tree EXCEPT !.exists = TRUE]
        opened == [made EXCEPT !.m3u[which] = File(<<Header>>)]
        pl     == filter_unique(self, [given |-> TRUE, files |-> TreeFiles(opened)],
                                FALSE)
        st     == CopyLoop(pl, 1, [tree |-> opened, copied |-> {},
                                   deleted |-> {}, status |-> "returned"],
                           source_dir, sourceFiles)
    IN  IF st.status = "raised" THEN st
        ELSE [st EXCEPT !.tree.m3u[which] =
                            File(PlaylistLoop(self, 1, {}, <<Header>>, source_dir))]

----------------------------------------------------------------------------
(* pyWMPsonglist.remove_songs                                              *)

\* Lines 637-640: dest_dir must be given and must exist.  destArg is "unset",
\* "dest" (the destination directory of the model) or "missing" (a directory
\* that does not exist).  First the test of line 637 alone.
RemoveTargetValidMut(destArg, tree) == destArg # "unset"

\* "not dest_dir" at line 637, then os.path.exists(dest_dir) at line 639.
RemoveTargetValid(destArg, tree) ==
    destArg # "unset" /\ (destArg = "dest" /\ tree.exists)

\* One iteration of the removal loop, lines 656-670: os.remove is handed the
\* directory of the song's destination path; it deletes a file and raises on
\* a directory.
RemoveStep(st, song, source_dir) ==
    LET rel == DestRelPath(song.url, source_dir)
        dir == DirOf(rel)
    IN  IF st.status = "raised" \/ ~PathExists(st.tree, dir) THEN st
        ELSE IF IsFile(st.tree, dir)
        THEN [st EXCEPT !.tree.files = WithoutFile(@, dir),
                        !.deleted = @ \cup {dir}]
        ELSE [st EXCEPT !.status = "raised"]

RECURSIVE RemoveLoop(_, _, _, _)
RemoveLoop(pl, i, st, source_dir) ==
    IF i > Len(pl) THEN st
    ELSE RemoveLoop(pl, i + 1, RemoveStep(st, pl[i], source_dir), source_dir)

\* remove_songs(playlist_path, dest_dir, source_dir) with source_dir resolved,
\* lines 637-671.
remove_songs(tree, self, which, destArg, source_dir) ==
    LET unchanged == [tree |-> tree, copied |-> {},
                      deleted |-> {}, status |-> "raised"]
        \* the playlist file of the call: the explicit one lies in the
        \* destination directory of the model, the default one in dest_dir
        hasList   == tree.m3u[which].exists /\ (which = "explicit" \/ destArg = "dest")
        unlisted  == IF hasList THEN [tree EXCEPT !.m3u[which] = NoFile] ELSE tree
        target    == IF destArg = "dest" THEN unlisted ELSE NoTree
        pl        == filter_unique(self, [given |-> TRUE, files |-> TreeFiles(target)],
                                   TRUE)
        st        == RemoveLoop(pl, 1,
                         [tree |-> target, copied |-> {},
                          deleted |-> IF hasList THEN {M3uName(which)} ELSE {},
                          status |-> "returned"],
                         source_dir)
    IN  IF ~RemoveTargetValid(destArg, tree) THEN unchanged
        ELSE IF destArg = "dest" THEN st
        ELSE [st EXCEPT !.tree = unlisted]

----------------------------------------------------------------------------
(* pyWMPplaylist                                                           *)

\* playlistCollection.getByName(name): the playlists of that name, in the
\* order of the library.
getByName(library, name) ==
    LET Named(p) == p.name = name IN SelectSeq(library, Named)

\* playlistCollection.getAll()
getAll(library) == library

\* self[k] = v
SetItem(dict, k, v) ==
    [x \in DOMAIN dict \cup {k} |-> IF x = k THEN v ELSE dict[x]]

\* The loop of lines 708-712 from playlist i on.
RECURSIVE Populate(_, _, _)
Populate(dict, pl, i) ==
    IF i > Len(pl) THEN dict
    ELSE Populate(SetItem(dict, pl[i].name, [name |-> pl[i].name, songs |-> pl[i].songs]),
                  pl, i + 1)

\* __init__(win32com_ptr, name) run on a dictionary with the items dict:
\* dict.__init__ without arguments (line 699) leaves the items in place.
init(dict, library, name) ==
    Populate(dict, IF name # None THEN getByName(library, name) ELSE getAll(library), 1)

\* playlistCollection.remove(pl[0]) for the playlists pl of name key.
RemoveFirst(library, key) ==
    LET first == CHOOSE i \in 1..Len(library) :
                     /\ library[i].name = key
                     /\ \A j \in 1..(i - 1) : library[j].name # key
    IN  SubSeq(library, 1, first - 1) \o SubSeq(library, first + 1, Len(library))

\* __delitem__(key), lines 719-731.
delitem(dict, library, name, key) ==
    IF Len(getByName(library, key)) > 0
    THEN LET removed == RemoveFirst(library, key)
         IN  [library |-> removed, dict |-> init(dict, removed, name)]
    ELSE [library |-> library, dict |-> dict]

\* "skip WMP default playlists", lines 752-753.
DefaultNamesMut == {}

DefaultNames ==
    {"All Music", "All Pictures", "All Video", "Music auto rated at 5 stars",
     "Pictures rated 4 or 5 stars"}

\* The files export_playlist leaves at playlist_path + k.
FilesAt(files, k) ==
    IF k \in DOMAIN files THEN files[k] ELSE [m3u |-> NoFile, log |-> NoFile]

\* The loop of lines 749-759 over the keys from position i on: the calls of
\* export_playlist with the counts they returned, errors, the names gathered
\* in s, and the files written.
RECURSIVE ExportPlaylistsLoop(_, _, _, _, _, _, _)
ExportPlaylistsLoop(dict, keys, i, st, source_dir, dest_dir, version) ==
    IF i > Len(keys) THEN st
    ELSE LET k   == keys[i]
             out == export_playlist(dict[k].songs, source_dir, dest_dir,
                                    FilesAt(st.files, k).log, version)
         IN  IF Len(dict[k].songs) = 0 \/ k \in DefaultNames
             THEN ExportPlaylistsLoop(dict, keys, i + 1, st, source_dir, dest_dir,
                                      version)
             ELSE ExportPlaylistsLoop(dict, keys, i + 1,
                      [calls  |-> Append(st.calls, [name |-> k, cnt |-> out.cnt]),
                       errors |-> st.errors + out.cnt,
                       s      |-> IF out.cnt # 0 THEN Append(st.s, k) ELSE st.s,
                       files  |-> SetItem(st.files, k,
                                          [m3u |-> out.m3u, log |-> out.log])],
                      source_dir, dest_dir, version)

\* export_playlists(playlist_path, source_dir, dest_dir), lines 741-764, the
\* keys being traversed in the order keys.
export_playlists(dict, keys, files, source_dir, dest_dir, version) ==
    ExportPlaylistsLoop(dict, keys, 1,
                        [calls |-> <<>>, errors |-> 0, s |-> <<>>, files |-> files],
                        source_dir, dest_dir, version)

----------------------------------------------------------------------------
(* Inputs of the attribute filter                                          *)

MaxSongs == 3

F_rated80 == [url |-> P_cmat,
              attrs |-> [UserRating |-> <<"8", "0">>, FileType |-> <<"m", "p", "3">>]]
F_rated50 == [url |-> P_cmau,
              attrs |-> [UserRating |-> <<"5", "0">>, FileType |-> <<"w", "m", "a">>]]
F_unrated == [url |-> P_cmbt, attrs |-> [FileType |-> <<"m", "p", "3">>]]

FilterSongs == {F_rated80, F_rated50, F_unrated, F_bare}

FilterLists == UNION {[1..n -> FilterSongs] : n \in 0..MaxSongs}

InitFilter ==
    /\ py \in {2, 3}
    /\ fl_songs \in FilterLists
    /\ fl_attribute \in {"UserRating", "FileType"}
    /\ fl_test \in {T_gt, T_eq, T_gt_or}
    /\ fl_res = [keep \in BOOLEAN |-> NoCall]
    /\ IdlePath
    /\ IdleUnique
    /\ IdlePlaylist
    /\ IdleExport
    /\ IdleAttributes
    /\ IdleCollection
    /\ IdleEntry

\* self.filter_by_attribute(attribute, test, label, keep)
FilterByAttribute(keep) ==
    /\ fl_res[keep] = NoCall
    /\ fl_res' = [fl_res EXCEPT ![keep] =
                      filter_by_attribute(fl_songs, fl_attribute, fl_test, keep, py)]
    /\ UNCHANGED <<py, fl_songs, fl_attribute, fl_test, pathVars, uniqueVars,
                   playlistVars, exportVars, attrVars,
                   collectionVars, entryVars>>

NextFilter == \E keep \in BOOLEAN : FilterByAttribute(keep)

SpecFilter == InitFilter /\ [][NextFilter]_vars

----------------------------------------------------------------------------
(* Inputs of the path analysis                                             *)

MaxFiles == 3


PathUniverse == {P_cmat, P_cmau, P_cmbt, P_cmmt, P_ct, P_dxt}

PathLists == UNION {[1..n -> PathUniverse] : n \in 0..MaxFiles}

InitPath ==
    /\ py = 3
    /\ cp_input \in PathLists
    /\ cp_order \in Orders(Range(cp_input))
    /\ cp_out = NoCall
    /\ IdleFilter
    /\ IdleUnique
    /\ IdlePlaylist
    /\ IdleExport
    /\ IdleAttributes
    /\ IdleCollection
    /\ IdleEntry

\* common_path(filelist): set(filelist) is traversed in cp_order.
CommonPathCall ==
    /\ cp_out = NoCall
    /\ cp_out' = common_path(cp_order)
    /\ UNCHANGED <<py, cp_input, cp_order, filterVars, uniqueVars, playlistVars,
                   exportVars, attrVars,
                   collectionVars, entryVars>>

NextPath == CommonPathCall

SpecPath == InitPath /\ [][NextPath]_vars

----------------------------------------------------------------------------
(* Inputs of filter_unique                                                 *)

R_at == <<"a", "/", "t">>
R_u  == <<"u">>
R_zk == <<"z", "/", "k">>

\* The files a target directory may hold, as paths below it.
TargetFiles == {R_at, R_u, R_zk}

\* The names of the list: a playlist name, and the empty string.
ListNames == {<<"l">>, <<>>}

TargetTrees == {NoTarget} \cup {[given |-> TRUE, files |-> fs] : fs \in SUBSET TargetFiles}

InitUnique ==
    /\ py = 3
    /\ fu_songs \in FilterLists
    /\ fu_name \in ListNames
    /\ fu_target \in TargetTrees
    /\ fu_res = [reverse \in BOOLEAN |-> NoCall]
    /\ IdlePath
    /\ IdleFilter
    /\ IdlePlaylist
    /\ IdleExport
    /\ IdleAttributes
    /\ IdleCollection
    /\ IdleEntry

\* self.filter_unique(target_path, reverse)
FilterUnique(reverse) ==
    /\ fu_res[reverse] = NoCall
    /\ fu_res' = [fu_res EXCEPT ![reverse] =
                      [status |-> "returned",
                       list |-> filter_unique(fu_songs, fu_target, reverse),
                       name |-> UniqueLabel(fu_name)]]
    /\ UNCHANGED <<py, fu_songs, fu_name, fu_target, pathVars, filterVars,
                   playlistVars, exportVars, attrVars,
                   collectionVars, entryVars>>

NextUnique == \E reverse \in BOOLEAN : FilterUnique(reverse)

SpecUnique == InitUnique /\ [][NextUnique]_vars

----------------------------------------------------------------------------
(* Inputs of the exports                                                   *)

E_at == [url |-> P_cmat, attrs |-> [FileType |-> <<"m", "p", "3">>]]
E_au == [url |-> P_cmau,
         attrs |-> [Duration |-> <<"3", "0", ".", "5">>, Author |-> <<"x">>,
                    Title |-> <<"y", NonEncodable>>]]
E_bt == [url |-> P_cmbt,
         attrs |-> [Duration |-> <<"7">>, Author |-> <<"x">>, Title |-> <<"z">>]]
E_dt == [url |-> P_dxt, attrs |-> [Title |-> <<"z">>]]

ExportSongs == {E_at, E_au, E_bt, E_dt}

\* The song lists export_playlist is called on.
PlaylistLists == UNION {[1..n -> {E_at, E_au, E_dt}] : n \in 0..MaxSongs}

\* The declared source root and the root it is mapped to.
SourceRoot == <<"c", ":", "/", "m">>
RebasedRoot == <<".", ".">>

InitPlaylist ==
    /\ py \in {2, 3}
    /\ IdlePlaylist
    /\ IdlePath
    /\ IdleFilter
    /\ IdleUnique
    /\ IdleExport
    /\ IdleAttributes
    /\ IdleCollection
    /\ IdleEntry

\* songs.export_playlist(playlist_path, source_dir, dest_dir) for a song list
\* of the library; playlist_path is the same in every call.
ExportPlaylist(songs, source_dir, dest_dir) ==
    LET out == export_playlist(songs, source_dir, dest_dir, ep_log, py)
    IN  /\ ep_m3u' = out.m3u
        /\ ep_log' = out.log
        /\ ep_logBefore' = ep_log.exists
        /\ ep_call' = [status |-> "returned", songs |-> songs,
                       source_dir |-> source_dir, dest_dir |-> dest_dir,
                       cnt |-> out.cnt]
        /\ UNCHANGED <<py, pathVars, filterVars, uniqueVars, exportVars, attrVars,
                   collectionVars, entryVars>>

NextPlaylist ==
    \E songs \in PlaylistLists :
        \E dirs \in {<<<<>>, <<>>>>, <<SourceRoot, RebasedRoot>>} :
            ExportPlaylist(songs, dirs[1], dirs[2])

SpecPlaylist == InitPlaylist /\ [][NextPlaylist]_vars

----------------------------------------------------------------------------
(* export_songs and remove_songs on one destination directory              *)

MaxExportSongs == 2

MaxCalls == 2

ExportSongLists == UNION {[1..n -> ExportSongs] : n \in 0..MaxExportSongs}

\* The source files on disk: the song c:/m/b/t is stale.
SourceFiles == {P_cmat, P_cmau, P_dxt}

R_a == <<"a">>

\* The content of a file the destination held before the first call.
Old == <<"old">>

\* The files the destination may hold at first: a/t is where c:/m/a/t lands
\* below c:/m, u carries the file name of c:/m/a/u, and a is a file named like
\* the directory of c:/m/a/t.
PreFiles == {R_at, R_u, R_a}

InitialTrees ==
    {NoTree} \cup
    {[exists |-> TRUE,
      files  |-> [p \in fs |-> Old],
      dirs   |-> UNION {DirChain(DirOf(p)) : p \in fs},
      m3u    |-> [which \in {"default", "explicit"} |-> NoFile]] :
        fs \in {x \in SUBSET PreFiles : ~(R_a \in x /\ R_at \in x)}}

\* source_dir as resolved by lines 554-555 and 634-635: the argument, or
\* common_path over the sourceURLs in some traversal order.
SourceDirs(srcArg, self) ==
    IF Len(srcArg) > 0 THEN {[status |-> "returned", value |-> srcArg]}
    ELSE {common_path(order) : order \in Orders({self[i].url : i \in 1..Len(self)})}

Call(op, which, destArg, source, out) ==
    [op |-> op, which |-> which, dest |-> destArg, source_dir |-> source,
     status |-> out.status, copied |-> out.copied, deleted |-> out.deleted]

InitExport ==
    /\ py = 3
    /\ ex_songs \in ExportSongLists
    /\ ex_tree \in InitialTrees
    /\ ex_last = NoCall
    /\ ex_calls = 0
    /\ IdlePath
    /\ IdleFilter
    /\ IdleUnique
    /\ IdlePlaylist
    /\ IdleAttributes
    /\ IdleCollection
    /\ IdleEntry

\* self.export_songs(playlist_path, dest_dir, source_dir); dest_dir resolves
\* to the destination directory of the model.
ExportSongsCall(which, srcArg) ==
    /\ ex_calls < MaxCalls
    /\ \E source \in SourceDirs(srcArg, ex_songs) :
          LET out == IF source.status = "raised"
                     THEN [tree |-> ex_tree, copied |-> {},
                           deleted |-> {}, status |-> "raised"]
                     ELSE export_songs(ex_tree, ex_songs, which, source.value,
                                       SourceFiles)
          IN  /\ ex_tree' = out.tree
              /\ ex_last' = Call("export", which, "dest", source, out)
    /\ ex_calls' = ex_calls + 1
    /\ UNCHANGED <<py, ex_songs, pathVars, filterVars, uniqueVars, playlistVars,
                   attrVars, collectionVars, entryVars>>

\* self.remove_songs(playlist_path, dest_dir, source_dir)
RemoveSongsCall(which, destArg, srcArg) ==
    /\ ex_calls < MaxCalls
    /\ \E source \in SourceDirs(srcArg, ex_songs) :
          LET out == IF source.status = "raised"
                     THEN [tree |-> ex_tree, copied |-> {},
                           deleted |-> {}, status |-> "raised"]
                     ELSE remove_songs(ex_tree, ex_songs, which, destArg, source.value)
          IN  /\ ex_tree' = out.tree
              /\ ex_last' = Call("remove", which, destArg, source, out)
    /\ ex_calls' = ex_calls + 1
    /\ UNCHANGED <<py, ex_songs, pathVars, filterVars, uniqueVars, playlistVars,
                   attrVars, collectionVars, entryVars>>

NextExport ==
    \E which \in {"default", "explicit"}, srcArg \in {<<>>, SourceRoot} :
        \/ ExportSongsCall(which, srcArg)
        \/ \E destArg \in {"unset", "dest", "missing"} :
               RemoveSongsCall(which, destArg, srcArg)

SpecExport == InitExport /\ [][NextExport]_vars

----------------------------------------------------------------------------
(* Inputs of filter_recent                                                 *)

\* Songs acquired today, yesterday, and five days ago in the month before; a
\* song without the attribute.
RecentSongs ==
    {[url |-> P_cmat, attrs |-> [AcquisitionTimeYearMonthDay |-> Today]],
     [url |-> P_cmau,
      attrs |-> [AcquisitionTimeYearMonthDay |->
                     <<"1", "1", "/", "0", "4", "/", "2", "0", "2", "6">>]],
     [url |-> P_cmbt,
      attrs |-> [AcquisitionTimeYearMonthDay |->
                     <<"1", "0", "/", "3", "1", "/", "2", "0", "2", "6">>]],
     [url |-> P_dxt, attrs |-> [FileType |-> <<"m", "p", "3">>]]}

RecentLists == UNION {[1..n -> RecentSongs] : n \in 0..MaxSongs}

\* The windows asked for: each is the age of one song of the model.
Windows == {1, 5}

InitRecent ==
    /\ py \in {2, 3}
    /\ fl_songs \in RecentLists
    /\ fl_attribute = AcquisitionTime
    /\ fl_test \in {T_recent(days) : days \in Windows}
    /\ fl_res = [keep \in BOOLEAN |-> NoCall]
    /\ IdlePath
    /\ IdleUnique
    /\ IdlePlaylist
    /\ IdleExport
    /\ IdleAttributes
    /\ IdleCollection
    /\ IdleEntry

\* self.filter_recent(days, keep)
FilterRecent(keep) ==
    /\ fl_res[keep] = NoCall
    /\ fl_res' = [fl_res EXCEPT ![keep] =
                      filter_recent(fl_songs, fl_test.days, keep, py)]
    /\ UNCHANGED <<py, fl_songs, fl_attribute, fl_test, pathVars, uniqueVars,
                   playlistVars, exportVars, attrVars,
                   collectionVars, entryVars>>

NextRecent == \E keep \in BOOLEAN : FilterRecent(keep)

SpecRecent == InitRecent /\ [][NextRecent]_vars

----------------------------------------------------------------------------
(* Inputs of get_attributes                                                *)

HistogramSongs ==
    {[url |-> P_cmat, attrs |-> [Author |-> <<"x">>, Title |-> <<"p">>]],
     [url |-> P_cmau, attrs |-> [Author |-> <<"x">>, Title |-> <<"q">>]],
     [url |-> P_cmbt, attrs |-> [Author |-> <<"y">>, Title |-> <<"q">>]],
     [url |-> P_dxt, attrs |-> [Author |-> <<"y">>]]}

HistogramLists == UNION {[1..n -> HistogramSongs] : n \in 0..MaxSongs}

\* The thresholds asked for.
MinSongs == {1, 2}

InitAttributes ==
    /\ py \in {2, 3}
    /\ ga_songs \in HistogramLists
    /\ ga_min \in MinSongs
    /\ ga_res = NoCall
    /\ IdlePath
    /\ IdleFilter
    /\ IdleUnique
    /\ IdlePlaylist
    /\ IdleExport
    /\ IdleCollection
    /\ IdleEntry

\* self.get_attributes(min_songs)
GetAttributes ==
    /\ ga_res = NoCall
    /\ ga_res' = get_attributes(ga_songs, ga_min, py)
    /\ UNCHANGED <<py, ga_songs, ga_min, pathVars, filterVars, uniqueVars,
                   playlistVars, exportVars, collectionVars, entryVars>>

NextAttributes == GetAttributes

SpecAttributes == InitAttributes /\ [][NextAttributes]_vars

----------------------------------------------------------------------------
(* Inputs of __playlistEntry_M3U__                                         *)

\* sourceURLs whose file names hold no, one, two and three dots.
EntryURLs ==
    {<<"m", "/", "t">>,
     <<"m", "/", "t", ".", "e">>,
     <<"m", "_", "x", "/", "a", "_", "b", ".", "c", ".", "e">>,
     <<"q", "/", "r", ".", "s", ".", "t", ".", "e">>}

\* The attributes a song may carry besides its sourceURL.
EntryAttributes ==
    [Duration |-> <<"0", "3", "0", ".", "5">>, Author |-> <<"x">>, Title |-> <<"y">>]

EntrySongs ==
    {[url |-> u, attrs |-> [k \in ks |-> EntryAttributes[k]]] :
        u \in EntryURLs, ks \in SUBSET DOMAIN EntryAttributes}

\* The url argument: not given, or the place the song is exported to.
OverrideURLs == {<<>>, <<"k", "/", "t">>}

InitEntry ==
    /\ py = 3
    /\ pe_song \in EntrySongs
    /\ pe_url \in OverrideURLs
    /\ pe_out = NoCall
    /\ IdlePath
    /\ IdleFilter
    /\ IdleUnique
    /\ IdlePlaylist
    /\ IdleExport
    /\ IdleAttributes
    /\ IdleCollection

\* self.__playlistEntry_M3U__(iwmp_media, url)
PlaylistEntry ==
    /\ pe_out = NoCall
    /\ pe_out' = [status |-> "returned", value |-> playlistEntry_M3U(pe_song, pe_url)]
    /\ UNCHANGED <<py, pe_song, pe_url, pathVars, filterVars, uniqueVars,
                   playlistVars, exportVars, attrVars, collectionVars>>

NextEntry == PlaylistEntry

SpecEntry == InitEntry /\ [][NextEntry]_vars

----------------------------------------------------------------------------
(* A playlist collection over a media library                              *)

MaxPlaylists == 3

\* The names of the playlists of the library: a default playlist of the
\* player and two playlists of the user.
PlaylistNames == {"All Music", "rock", "jazz"}

Playlists ==
    {[name |-> n, songs |-> l] : n \in PlaylistNames, l \in {<<>>, <<E_au, E_dt>>}}

Libraries == UNION {[1..n -> Playlists] : n \in 0..MaxPlaylists}

\* pyWMPplaylist(wmp, name) for a library.
InitCollection ==
    /\ py \in {2, 3}
    /\ co_library \in Libraries
    /\ co_name \in {None, "rock"}
    /\ co_dict = init(<<>>, co_library, co_name)
    /\ co_files = <<>>
    /\ co_last = NoCall
    /\ IdlePath
    /\ IdleFilter
    /\ IdleUnique
    /\ IdlePlaylist
    /\ IdleExport
    /\ IdleAttributes
    /\ IdleEntry

\* del self[key]
DelItem(key) ==
    /\ LET out == delitem(co_dict, co_library, co_name, key)
       IN  /\ co_library' = out.library
           /\ co_dict' = out.dict
    /\ co_last' = [op |-> "del", key |-> key]
    /\ UNCHANGED <<py, co_name, co_files, pathVars, filterVars, uniqueVars,
                   playlistVars, exportVars, attrVars, entryVars>>

\* self.export_playlists(playlist_path, source_dir, dest_dir)
ExportPlaylists(source_dir, dest_dir) ==
    \E keys \in Orders(DOMAIN co_dict) :
        LET out == export_playlists(co_dict, keys, co_files, source_dir, dest_dir, py)
        IN  /\ co_files' = out.files
            /\ co_last' = [op |-> "export", calls |-> out.calls,
                           errors |-> out.errors, s |-> out.s]
            /\ UNCHANGED <<py, co_library, co_name, co_dict, pathVars, filterVars,
                           uniqueVars, playlistVars, exportVars, attrVars,
                           entryVars>>

NextCollection ==
    \/ \E key \in PlaylistNames \cup {"gone"} : DelItem(key)
    \/ \E source_dir \in {<<>>}, dest_dir \in {<<>>} :
           ExportPlaylists(source_dir, dest_dir)

SpecCollection == InitCollection /\ [][NextCollection]_vars

----------------------------------------------------------------------------
(* C1 *)

\* The directories above a file path: the non-empty proper prefixes of its
\* segment list.
AncestorDirs(f) ==
    LET parts == AllButLast(Split(f, Sep))
    IN  {SubSeq(parts, 1, k) : k \in 1..Len(parts)}

\* The directories that are an ancestor of strictly more than half of the
\* distinct paths.
MajorityDirs(fileset) ==
    {d \in UNION {AncestorDirs(f) : f \in fileset} :
        Cardinality({f \in fileset : d \in AncestorDirs(f)}) * 2
            > Cardinality(fileset)}

DeepestMajorityDir(fileset) ==
    CHOOSE d \in MajorityDirs(fileset) :
        \A e \in MajorityDirs(fileset) : Len(e) <= Len(d)

\* C1: whenever some directory is an ancestor of strictly more than half of
\* the distinct paths, common_path returns exactly the deepest such directory,
\* whatever the number of paths and the depth of that directory.
C1_CommonPathDeepest ==
    (cp_out # NoCall /\ MajorityDirs(Range(cp_input)) # {})
        => /\ cp_out.status = "returned"
           /\ cp_out.value = Join(DeepestMajorityDir(Range(cp_input)), Sep)

----------------------------------------------------------------------------
(* C2, C10 *)

HasAttribute(songs, attribute) ==
    {songs[i] : i \in {j \in 1..Len(songs) : attribute \in DOMAIN songs[j].attrs}}

BothFiltersReturned ==
    fl_res[TRUE].status = "returned" /\ fl_res[FALSE].status = "returned"

\* The test is a predicate of the list: it yields a boolean for the value of
\* every song that has the attribute.
TestIsPredicate ==
    \A i \in 1..Len(fl_songs) :
        fl_attribute \in DOMAIN fl_songs[i].attrs
            => Eval(fl_test, getItemInfo(fl_songs[i], fl_attribute), py).kind = "value"

\* C2: the results of keep=True and keep=False are disjoint and together hold
\* exactly the songs of the input that possess the attribute; a song lacking
\* the attribute is in neither and does not stop the songs after it from
\* being classified.
C2_FilterPartition ==
    (BothFiltersReturned /\ TestIsPredicate)
        => /\ Range(fl_res[TRUE].list) \cap Range(fl_res[FALSE].list) = {}
           /\ Range(fl_res[TRUE].list) \cup Range(fl_res[FALSE].list)
                  = HasAttribute(fl_songs, fl_attribute)

\* The test raises NameError for song i (and song i is evaluated at all).
NameErrorAt(i) ==
    /\ attributeCount(fl_songs[i]) > 0
    /\ fl_attribute \in DOMAIN fl_songs[i].attrs
    /\ Eval(fl_test, getItemInfo(fl_songs[i], fl_attribute), py) = Raises("NameError")

\* The first song at which the loop leaves early, Len + 1 when there is none.
FirstStop ==
    LET stops == {i \in 1..Len(fl_songs) :
                     \/ attributeCount(fl_songs[i]) = 0
                     \/ /\ fl_attribute \in DOMAIN fl_songs[i].attrs
                        /\ Eval(fl_test, getItemInfo(fl_songs[i], fl_attribute), py).kind
                               = "exception"}
    IN  IF stops = {} THEN Len(fl_songs) + 1
        ELSE CHOOSE i \in stops : \A j \in stops : i <= j

\* C10: when the evaluation of the test raises NameError for a song the filter
\* reaches, the failure is surfaced to the caller: the call does not return a
\* SongList as if it had succeeded.
C10_NameErrorSurfaced ==
    \A keep \in BOOLEAN :
        (/\ fl_res[keep] # NoCall
         /\ FirstStop <= Len(fl_songs)
         /\ NameErrorAt(FirstStop))
            => fl_res[keep].status = "raised"

----------------------------------------------------------------------------
(* C3 *)

DistinctSongs(songs) == Range(songs)

NameUnderTarget(song) == Basename(song.url) \in WalkNames(fu_target.files)

\* C3: for an existing target directory (one without files included),
\* filter_unique(dest) and filter_unique(dest, reverse=True) are disjoint, the
\* first holds exactly the distinct songs whose base filename is absent under
\* dest, the second exactly those whose base filename is present, and together
\* they cover every distinct sourceURL of the input.
C3_UniquePartition ==
    (/\ fu_target.given
     /\ fu_res[FALSE] # NoCall
     /\ fu_res[TRUE] # NoCall)
        => /\ Range(fu_res[FALSE].list) \cap Range(fu_res[TRUE].list) = {}
           /\ Range(fu_res[FALSE].list)
                  = {s \in DistinctSongs(fu_songs) : ~NameUnderTarget(s)}
           /\ Range(fu_res[TRUE].list)
                  = {s \in DistinctSongs(fu_songs) : NameUnderTarget(s)}
           /\ {s.url : s \in Range(fu_res[FALSE].list) \cup Range(fu_res[TRUE].list)}
                  = {s.url : s \in Range(fu_songs)}

----------------------------------------------------------------------------
(* C6, C7 *)

\* The songs of a list without the later repeats of a sourceURL.
RECURSIVE FirstOccurrences(_)
FirstOccurrences(songs) ==
    IF Len(songs) = 0 THEN <<>>
    ELSE LET rest == FirstOccurrences(AllButLast(songs))
             last == songs[Len(songs)]
         IN  IF \E i \in 1..Len(rest) : rest[i].url = last.url
             THEN rest
             ELSE Append(rest, last)

\* The entry export_playlist forms for a song of its last call.
CallEntry(song) ==
    Rebase(playlistEntry_M3U(song, <<>>), ep_call.source_dir, ep_call.dest_dir)

\* C6: a playlist file written by an export holds exactly one #EXTINF/path
\* entry per distinct sourceURL of the song list, in the order of first
\* occurrence, also when the list holds a song more than once.
C6_OneEntryPerSong ==
    ep_call # NoCall
        => LET distinct == FirstOccurrences(ep_call.songs)
           IN  /\ Len(ep_m3u.content) = 1 + Len(distinct)
               /\ \A i \in 1..Len(distinct) :
                      ep_m3u.content[i + 1] = CallEntry(distinct[i])

\* The positions of the last call's list whose entry cannot be written.
FailedEntries ==
    {i \in 1..Len(ep_call.songs) : py = 3}

RECURSIVE EntriesAt(_, _)
EntriesAt(songs, keep) ==
    IF Len(songs) = 0 THEN <<>>
    ELSE EntriesAt(AllButLast(songs), keep)
             \o (IF Len(songs) \in keep THEN <<CallEntry(songs[Len(songs)])>> ELSE <<>>)

----------------------------------------------------------------------------
(* C4 *)

\* The step is a call of op that follows a returned export_songs and is given
\* the same playlist path, destination and source directory.
FollowsExport(op) ==
    /\ ex_last # NoCall
    /\ ex_last.op = "export"
    /\ ex_last.status = "returned"
    /\ ex_last'.op = op
    /\ ex_last'.dest = "dest"
    /\ ex_last'.which = ex_last.which
    /\ ex_last'.source_dir = ex_last.source_dir

\* C4: export idempotence.  An export_songs that follows an export_songs of
\* the same list with the same destination and source directory copies no
\* file and leaves the destination tree, playlist file included, as it was.
C4_ExportIdempotent ==
    [][FollowsExport("export")
          => /\ ex_last'.status = "returned"
             /\ ex_last'.copied = {}
             /\ ex_tree' = ex_tree]_vars

----------------------------------------------------------------------------
(* C5 *)

\* C5: export then removal.  A remove_songs that follows an export_songs of
\* the same list with the same destination and source directory returns, and
\* deletes exactly the files the export copied and the playlist file; every
\* other file of the destination stays as it was.
C5_ExportThenRemove ==
    [][FollowsExport("remove")
          => /\ ex_last'.status = "returned"
             /\ ex_last'.deleted = ex_last.copied \cup {M3uName(ex_last.which)}
             /\ ex_tree'.files = [p \in DOMAIN ex_tree.files \ ex_last.copied
                                    |-> ex_tree.files[p]]
             /\ ~ex_tree'.m3u[ex_last.which].exists]_vars

----------------------------------------------------------------------------
(* C8 *)

\* C8: export is never destructive.  Every file the destination tree holds
\* before an export_songs is there with the same content after it (the
\* playlist file is not among these files).
C8_ExportNeverDestructive ==
    [][ex_last'.op = "export"
          => \A p \in DOMAIN ex_tree.files :
                 p \in DOMAIN ex_tree'.files /\ ex_tree'.files[p] = ex_tree.files[p]]_vars

----------------------------------------------------------------------------
(* C9 *)

\* The step is a remove_songs whose dest_dir is unset or names a directory
\* that does not exist.
InvalidRemoval ==
    /\ ex_last'.op = "remove"
    /\ ex_last'.dest \in {"unset", "missing"} \/ ~ex_tree.exists

\* C9: remove_songs fails fast on an invalid target.  When dest_dir is unset
\* or names a directory that does not exist the call raises, and no song file
\* and no playlist file has been removed: the tree is as it was.
C9_RemoveFailsFast ==
    [][InvalidRemoval
          => /\ ex_last'.status = "raised"
             /\ ex_last'.deleted = {}
             /\ ex_tree' = ex_tree]_vars

\* A remove_songs with an explicit playlist path and a dest_dir that does not
\* exist has raised, while the playlist file it names and a copied song exist.
C9_Witness ==
    /\ ex_last # NoCall
    /\ ex_last.op = "remove"
    /\ ex_last.dest = "missing"
    /\ ex_last.which = "explicit"
    /\ ex_last.status = "raised"
    /\ ex_tree.m3u["explicit"].exists
    /\ \E p \in DOMAIN ex_tree.files : ex_tree.files[p] # Old

----------------------------------------------------------------------------
(* C11 *)

\* The songs of the list that carry the acquisition date and whose age in
\* whole days is, or is not, strictly less than days.
RecentOnes(songs, days, recent) ==
    LET Wanted(song) ==
            /\ AcquisitionTime \in DOMAIN song.attrs
            /\ (DayNumber(Today) - DayNumber(song.attrs[AcquisitionTime]) < days)
                   = recent
    IN  SelectSeq(songs, Wanted)

\* C11: filter_recent(days, keep=True) returns, in input order, exactly the
\* songs that carry the acquisition date and are less than days whole days
\* old, and keep=False returns the other songs that carry it.
C11_FilterRecent ==
    fl_test.kind = "function" =>
        \A keep \in BOOLEAN :
            fl_res[keep] # NoCall =>
                /\ fl_res[keep].status = "returned"
                /\ fl_res[keep].list = RecentOnes(fl_songs, fl_test.days, keep)

----------------------------------------------------------------------------
(* C12 *)

\* C12: filter_unique without a target path returns each distinct sourceURL
\* of the list once, in the order of first occurrence, dropping nothing but
\* later repeats, under the name '<original name> unique'; the list it was
\* called on is not changed.
C12_UniqueWithoutTarget ==
    /\ [](~fu_target.given =>
             \A reverse \in BOOLEAN :
                 fu_res[reverse] # NoCall =>
                     /\ fu_res[reverse].status = "returned"
                     /\ fu_res[reverse].list = FirstOccurrences(fu_songs)
                     /\ fu_res[reverse].name
                            = fu_name \o <<" ", "u", "n", "i", "q", "u", "e">>)
    /\ [][fu_songs' = fu_songs /\ fu_name' = fu_name]_vars

\* filter_unique() has dropped a repeat from a list with two distinct songs.
C12_Witness ==
    /\ ~fu_target.given
    /\ fu_res[FALSE] # NoCall
    /\ fu_res[TRUE] # NoCall
    /\ Len(fu_res[FALSE].list) = 2
    /\ Len(fu_songs) = 3
    /\ fu_songs[1].url = fu_songs[3].url
    /\ fu_name = <<"l">>

----------------------------------------------------------------------------
(* C13 *)

\* The number of songs of the list that carry value v for attribute k.
Occurrences(songs, k, v) ==
    Cardinality({i \in 1..Len(songs) :
                    k \in DOMAIN songs[i].attrs /\ songs[i].attrs[k] = v})

\* The values of attribute k that at least min_songs songs of the list carry.
FrequentValues(songs, k, min_songs) ==
    {v \in {songs[i].attrs[k] : i \in {j \in 1..Len(songs) : k \in DOMAIN songs[j].attrs}} :
        Occurrences(songs, k, v) >= min_songs}

\* C13: get_attributes returns a histogram in which every attribute has at
\* least 2 values, every value has a count of at least min_songs, every count
\* is the number of songs carrying that value, and from which exactly the
\* attributes without 2 such values are absent.
C13_TrimmedHistogram ==
    ga_res # NoCall =>
        /\ ga_res.status = "returned"
        /\ \A k \in DOMAIN ga_res.attr :
              /\ Cardinality(DOMAIN ga_res.attr[k]) >= 2
              /\ \A v \in DOMAIN ga_res.attr[k] :
                    /\ ga_res.attr[k][v] >= ga_min
                    /\ ga_res.attr[k][v] = Occurrences(ga_songs, k, v)
        /\ DOMAIN ga_res.attr
              = {k \in UNION {DOMAIN ga_songs[i].attrs : i \in 1..Len(ga_songs)} :
                    Cardinality(FrequentValues(ga_songs, k, ga_min)) >= 2}

----------------------------------------------------------------------------
(* C14 *)

\* A file name without its extension: the text from the last dot on.
RECURSIVE WithoutExtension(_)
WithoutExtension(name) ==
    IF "." \notin Range(name) THEN name
    ELSE IF name[Len(name)] = "." THEN AllButLast(name)
    ELSE WithoutExtension(AllButLast(name))

\* The attribute of the song when it is not empty, the fallback otherwise.
OrElse(song, k, fallback) ==
    IF k \in DOMAIN song.attrs /\ Len(song.attrs[k]) > 0 THEN song.attrs[k]
    ELSE fallback

\* C14: the entry holds the whole seconds of Duration or 120, Author or the
\* title-cased parent directory name, Title or the title-cased file name
\* without its extension (the text from the last dot on), underscores being
\* spaces in both fallbacks, and as its path line the url argument when one
\* is given and the sourceURL otherwise.
C14_EntryFallback ==
    pe_out # NoCall =>
        LET parts    == Split(pe_song.url, Sep)
            dirname  == parts[Len(parts) - 1]
            filename == parts[Len(parts)]
            seconds  == IF "Duration" \in DOMAIN pe_song.attrs
                        THEN <<"3", "0">> ELSE <<"1", "2", "0">>
        IN  pe_out.value =
                <<"#", "E", "X", "T", "I", "N", "F", ":">> \o seconds \o <<",">>
                \o OrElse(pe_song, "Author", title(Replace(dirname, <<"_">>, <<" ">>)))
                \o <<" ", "-", " ">>
                \o OrElse(pe_song, "Title",
                          title(Replace(WithoutExtension(filename), <<"_">>, <<" ">>)))
                \o <<"\n">>
                \o (IF pe_url # <<>> THEN pe_url ELSE pe_song.url)
                \o <<"\n">>

----------------------------------------------------------------------------
(* C15 *)

RECURSIVE SumOfCounts(_)
SumOfCounts(calls) ==
    IF Len(calls) = 0 THEN 0
    ELSE calls[Len(calls)].cnt + SumOfCounts(AllButLast(calls))

\* C15: export_playlists calls export_playlist once for each playlist of the
\* collection that holds a song and does not carry one of the five default
\* names, and for no other; the error total is the sum of the counts of these
\* calls, and the summary names the playlists whose count was not zero.
C15_ExportPlaylistsSelection ==
    (co_last # NoCall /\ co_last.op = "export") =>
        LET calls == co_last.calls
        IN  /\ {calls[i].name : i \in 1..Len(calls)}
                   = {k \in DOMAIN co_dict :
                         /\ Len(co_dict[k].songs) > 0
                         /\ k \notin {"All Music", "All Pictures", "All Video",
                                      "Music auto rated at 5 stars",
                                      "Pictures rated 4 or 5 stars"}}
            /\ \A i, j \in 1..Len(calls) : calls[i].name = calls[j].name => i = j
            /\ co_last.errors = SumOfCounts(calls)
            /\ {co_last.s[i] : i \in 1..Len(co_last.s)}
                   = {calls[i].name : i \in {j \in 1..Len(calls) : calls[j].cnt # 0}}

\* export_playlists has exported one playlist with errors and has skipped a
\* default playlist with songs and an empty playlist.
C15_Witness ==
    /\ co_last # NoCall
    /\ co_last.op = "export"
    /\ Len(co_last.calls) = 1
    /\ co_last.errors > 0
    /\ "All Music" \in DOMAIN co_dict
    /\ Len(co_dict["All Music"].songs) > 0
    /\ \E k \in DOMAIN co_dict : Len(co_dict[k].songs) = 0

----------------------------------------------------------------------------
(* C19 *)

\* The names of the playlists the collection is built from.
LibraryNames(library, name) ==
    {library[i].name : i \in {j \in 1..Len(library) :
                                 name = None \/ library[j].name = name}}

\* C19: after del of the key of an existing playlist the keys of the
\* collection are the names of the playlists the library then holds, and the
\* song list under every key carries the key as its name; del of a name the
\* library does not know changes neither the library nor the collection.
C19_DeleteAndReload ==
    [][co_last'.op = "del"
          => IF \E i \in 1..Len(co_library) : co_library[i].name = co_last'.key
             THEN /\ Len(co_library') = Len(co_library) - 1
                  /\ DOMAIN co_dict' = LibraryNames(co_library', co_name)
                  /\ \A k \in DOMAIN co_dict' : co_dict'[k].name = k
             ELSE co_library' = co_library /\ co_dict' = co_dict]_vars

----------------------------------------------------------------------------
(* C16 *)

\* C16: for every traversal order of the set of paths common_path returns
\* the empty prefix or a directory that is an ancestor of strictly more than
\* half of the distinct paths, the empty prefix when no first segment is
\* shared by more than half of them, and the same result in every order.
C16_CommonPathSound ==
    cp_out # NoCall =>
        LET fileset == Range(cp_input)
        IN  /\ cp_out.status = "returned"
            /\ \/ cp_out.value = <<>>
               \/ \E d \in MajorityDirs(fileset) : cp_out.value = Join(d, Sep)
            /\ (\A d \in MajorityDirs(fileset) : Len(d) # 1) => cp_out.value = <<>>
            /\ \A order \in Orders(fileset) : common_path(order) = cp_out

----------------------------------------------------------------------------
(* C17 *)

\* The destination-relative path of a sourceURL: the sourceURL without the
\* source_dir prefix (and the separator after it) when it starts with
\* source_dir, the sourceURL without its colons otherwise.
RelativeTo(url, source_dir) ==
    IF ~StartsWith(url, source_dir) THEN SelectSeq(url, LAMBDA c : c # ":")
    ELSE IF source_dir = <<>> THEN url
    ELSE SubSeq(url, Len(source_dir) + 2, Len(url))

\* C17: an export_songs that returns has copied every song of the copy set
\* whose source file exists and whose destination path was free to dest_dir
\* joined with its destination-relative path, for every source_dir, the empty
\* prefix of common_path included; it has copied no song whose source file is
\* missing.
C17_DestinationLayout ==
    [][(ex_last'.op = "export" /\ ex_last'.status = "returned")
          => \A i \in 1..Len(ex_songs) :
                LET url == ex_songs[i].url
                    rel == RelativeTo(url, ex_last'.source_dir.value)
                IN  /\ (/\ url \in SourceFiles
                        /\ Basename(url) \notin {Basename(f) : f \in DOMAIN ex_tree.files}
                        /\ ~PathExists(ex_tree, rel))
                           => /\ rel \in DOMAIN ex_tree'.files
                              /\ ex_tree'.files[rel] = url
                    /\ url \notin SourceFiles
                           => \A f \in DOMAIN ex_tree'.files : ex_tree'.files[f] # url]_vars

----------------------------------------------------------------------------
(* C18 *)

\* The entry of a song as the playlist of an export is to hold it: the text
\* line of the song's entry, then the path below dest_dir.
ResolvingEntry(song, rel) ==
    Split(playlistEntry_M3U(song, <<>>), "\n")[1] \o <<"\n">> \o rel \o <<"\n">>

\* C18: after an export_songs that returned, for every song it copied whose
\* entry could be written, the playlist holds the entry of that song with the
\* artist and title text as formed from the song and, as its path line, the
\* path of the copied file below dest_dir.
C18_PlaylistResolves ==
    (ex_last # NoCall /\ ex_last.op = "export" /\ ex_last.status = "returned") =>
        \A rel \in ex_last.copied :
            \A i \in 1..Len(ex_songs) :
                (/\ ex_songs[i].url = ex_tree.files[rel]
                 /\ NonEncodable \notin Range(playlistEntry_M3U(ex_songs[i], <<>>)))
                    => ResolvingEntry(ex_songs[i], rel)
                           \in Range(ex_tree.m3u[ex_last.which].content)

====
